---- MODULE Spec2Model ----
(***************************************************************************)
(* Repository state reconciliation of hexlet-cli's git utilities:          *)
(* pullMerge (index sanitizer + pull with the checkout-conflict swallow),  *)
(* addAll, isWorkDirChanged and commit, over the three snapshots of a      *)
(* repository (HEAD tree, index, working directory), with the assignment   *)
(* download writing into the working directory concurrently.               *)
(*                                                                         *)
(* File contents are abstract blob identities: 0 is "no file",             *)
(* 1..MaxContent are distinct contents, merged as whole blobs.  Paths are  *)
(* sequences of characters so that String.prototype.startsWith is          *)
(* computed, not assumed.  The isomorphic-git primitives the utilities     *)
(* call (statusMatrix, resetIndex, add, remove, commit, pull) are modelled *)
(* at their call sites by what the library does to the three snapshots;    *)
(* each of them is one atomic step.                                        *)
(***************************************************************************)
EXTENDS Naturals, Sequences, FiniteSets, TLC

\* ---------------------------------------------------------------- bounds
MaxContent == 2
MaxEnv == 2
MaxOps == 2

\* ---------------------------------------------------------------- paths
Paths == { <<"a">>, <<"a", "b">>, <<"d", "/", "f">> }
NoPath == <<>>
DirPaths == { <<"d">> }
CheckedPaths == Paths \cup DirPaths \cup {NoPath}
\* the paths the environment touches in Spec
LivePaths == { <<"a">>, <<"d", "/", "f">> }

Contents == 0..MaxContent
Trees == [Paths -> Contents]

VARIABLES
    head,       \* tree of the commit the local branch points at
    base,       \* tree of the newest remote commit contained in the local branch
    index,      \* staged snapshot
    workdir,    \* on-disk contents
    remote,     \* tree of the tip of the branch on the remote
    remoteTip,  \* number of the tip commit of the remote branch
    branch,     \* local branch pointer: newest remote commit it contains, local commits on top
    pc,         \* position of the caller
    rows0,      \* status matrix read by the running pullMerge / addAll
    pending,    \* resetIndex promises of the running pullMerge not yet settled
    done,       \* paths whose resetIndex of the running pullMerge has resolved
    rejected,   \* a promise of the running barrier has rejected
    leftover,   \* resetIndex promises still running after their Promise.all rejected
    addPending, \* git.add promises of the running addAll not yet settled
    rmPending,  \* git.remove promises of the running addAll not yet settled
    pullErr,    \* what git.pull raised inside the last pullMerge
    raised,     \* what the last operation raised to its caller
    check,      \* checkedPath and result of an isWorkDirChanged that just returned
    dirty,      \* something other than the running operation touched the repository since it read the status
    hist,       \* how far the addAll / commit / one write sequence has got
    nEnv,       \* environment steps taken
    nOps        \* operations the caller has started

vars == << head, base, index, workdir, remote, remoteTip, branch, pc, rows0,
           pending, done, rejected, leftover, addPending, rmPending, pullErr,
           raised, check, dirty, hist, nEnv, nOps >>

\* ---------------------------------------------------------------- status matrix
\* isomorphic-git: entry = [undefined, headOid, workdirOid, stageOid];
\* each column is entry.indexOf(value).
HeadStatus(h) == IF h = 0 THEN 0 ELSE 1

WorkTreeStatus(h, w) == IF w = 0 THEN 0 ELSE IF w = h THEN 1 ELSE 2

StageStatus(h, w, s) ==
    IF s = 0 THEN 0 ELSE IF s = h THEN 1 ELSE IF s = w THEN 2 ELSE 3

Row(h, w, s) == << HeadStatus(h), WorkTreeStatus(h, w), StageStatus(h, w, s) >>

\* String.prototype.startsWith
StartsWith(s, prefix) ==
    /\ Len(prefix) <= Len(s)
    /\ SubSeq(s, 1, Len(prefix)) = prefix

\* git.statusMatrix({ fs, dir, filter }): a row for every path present in
\* one of the three snapshots and admitted by the filter; the matrix is the
\* function from those paths to their [HEAD, WORKDIR, STAGE] codes.
StatusMatrix(h, w, s, filterOn, prefix) ==
    [ p \in { q \in Paths : /\ (h[q] # 0 \/ w[q] # 0 \/ s[q] # 0)
                             /\ (filterOn => StartsWith(q, prefix)) }
        |-> Row(h[p], w[p], s[p]) ]

EmptyMatrix == [ p \in {} |-> Row(0, 0, 0) ]

\* ---------------------------------------------------------------- pullMerge: selection
\* the filter without its deletedAndStaged disjunct
NeedsResetStagedOnly(row) == row[3] = 2 \/ row[3] = 3

\* the filter with existAndStaged missing stage state 3
NeedsResetNoStage3(row) == row[3] = 2 \/ (row[2] = 0 /\ row[3] = 0)

\* the filter with existAndStaged missing stage state 2
NeedsResetNoStage2(row) == row[3] = 3 \/ (row[2] = 0 /\ row[3] = 0)

\* the filter with deletedAndStaged not looking at the stage
NeedsResetAnyDeleted(row) == row[3] = 2 \/ row[3] = 3 \/ row[2] = 0

\* .filter(([, , workTreeStatus, stagedStatus]) => existAndStaged || deletedAndStaged)
NeedsReset(row) ==
    LET workTreeStatus == row[2]
        stagedStatus == row[3]
        existAndStaged == stagedStatus = 2 \/ stagedStatus = 3
        deletedAndStaged == workTreeStatus = 0 /\ stagedStatus = 0
    IN  existAndStaged \/ deletedAndStaged

ResetSet(m) == { p \in DOMAIN m : NeedsReset(m[p]) }

\* the promises started but not awaited
AllResolvedNoWait(stillPending) == TRUE

\* await Promise.all(promises): resolves once every promise has resolved
AllResolved(stillPending) == stillPending = {}

\* a catch that never rethrows
SwallowedAll(e) == TRUE

\* a catch that always rethrows
SwallowedNone(e) == FALSE

\* catch (e) { if (!(e instanceof git.Errors.CheckoutConflictError)) throw e; }
Swallowed(e) == e = "CheckoutConflictError"

\* ---------------------------------------------------------------- git.pull
\* git.checkout without force, per path: s = staged blob, c = blob in the
\* commit being checked out, w = blob on disk.
CheckoutOp(s, c, w) ==
    IF s = 0 /\ c = 0 THEN "keep"
    ELSE IF s = 0 /\ w = 0 THEN "update"
    ELSE IF s = 0 THEN (IF c # w THEN "conflict" ELSE "create-index")
    ELSE IF c = 0 /\ w = 0 THEN "delete-index"
    ELSE IF c = 0 THEN (IF s # w THEN "conflict" ELSE "delete")
    ELSE IF s = c THEN "keep"
    ELSE IF w # 0 /\ w # s /\ w # c THEN "conflict"
    ELSE "update"

CheckoutConflicts(target, idx, wd) ==
    { p \in Paths : CheckoutOp(idx[p], target[p], wd[p]) = "conflict" }

CheckoutIndex(target, idx, wd) ==
    [ p \in Paths |->
        LET op == CheckoutOp(idx[p], target[p], wd[p])
        IN  IF op \in {"update", "create-index"} THEN target[p]
            ELSE IF op \in {"delete", "delete-index"} THEN 0
            ELSE idx[p] ]

CheckoutWorkdir(target, idx, wd) ==
    [ p \in Paths |->
        LET op == CheckoutOp(idx[p], target[p], wd[p])
        IN  IF op = "update" THEN target[p]
            ELSE IF op = "delete" THEN 0
            ELSE wd[p] ]

\* git.merge of the fetched tip into the local branch: already merged,
\* fast-forward, or a three-way merge of whole blobs.
MergeConflicts(ours, anc, theirs) ==
    { p \in Paths : ours[p] # anc[p] /\ theirs[p] # anc[p] /\ ours[p] # theirs[p] }

MergeTree(ours, anc, theirs) ==
    [ p \in Paths |-> IF ours[p] = anc[p] THEN theirs[p] ELSE ours[p] ]

\* ---------------------------------------------------------------- isWorkDirChanged
\* fsp.stat(path.join(dir, checkedPath)) on the working directory
Stat(wd, checkedPath) ==
    IF checkedPath \in Paths /\ wd[checkedPath] # 0 THEN "file"
    ELSE IF \E p \in Paths : wd[p] # 0 /\ StartsWith(p, checkedPath \o <<"/">>)
         THEN "dir"
    ELSE "ENOENT"

\* stats.isDirectory() ? `${checkedPath}/` : checkedPath
FormattedCheckedPath(kind, checkedPath) ==
    IF kind = "dir" THEN checkedPath \o <<"/">> ELSE checkedPath

\* the predicate without its working-directory test
DeviatesIgnoringWorkTree(row) == row[1] # 1 \/ row[3] # 1

\* headStatus !== 1 || workTreeStatus !== 1 || stageStatus !== 1
Deviates(row) == row[1] # 1 \/ row[2] # 1 \/ row[3] # 1

\* fileStatuses.some(...)
SomeDeviates(m) == \E p \in DOMAIN m : Deviates(m[p])

\* ---------------------------------------------------------------- state
NoCheck == [arg |-> NoPath, res |-> "none"]

Terminal == { "idle", "DONE", "FAILED", "ADD_DONE", "ADD_FAILED",
              "COMMITTED" }

\* the trees a fresh clone starts from: "a" is tracked, "d/f" may be
FreshClones ==
    { [ p \in Paths |-> IF p = <<"a">> THEN 1
                        ELSE IF p = <<"d", "/", "f">> THEN x ELSE 0 ] : x \in {0, 1} }

Init ==
    /\ head \in FreshClones
    /\ base = head
    /\ index = head
    /\ workdir = head
    /\ remote = head
    /\ remoteTip = 0
    /\ branch = [tip |-> 0, ahead |-> 0]
    /\ pc = "idle"
    /\ rows0 = EmptyMatrix
    /\ pending = {}
    /\ done = {}
    /\ rejected = FALSE
    /\ leftover = [reset |-> {}, add |-> {}, rm |-> {}]
    /\ addPending = {}
    /\ rmPending = {}
    /\ pullErr = "none"
    /\ raised = "none"
    /\ check = NoCheck
    /\ dirty = FALSE
    /\ hist = "none"
    /\ nEnv = 0
    /\ nOps = 0

repoVars == << head, base, index, workdir, remote, remoteTip, branch >>
taskVars == << pending, done, rejected, leftover, addPending, rmPending >>

\* ---------------------------------------------------------------- environment
\* The assignment download writes a file into the tree.
WriteFile(p, c) ==
    /\ nEnv < MaxEnv
    /\ nEnv' = nEnv + 1
    /\ workdir' = [workdir EXCEPT ![p] = c]
    /\ dirty' = TRUE
    /\ hist' = IF hist = "clean"
               THEN (IF c # workdir[p] THEN "one_change" ELSE "one_same")
               ELSE "none"
    /\ check' = NoCheck
    /\ UNCHANGED << head, base, index, remote, remoteTip, branch, pc, rows0,
                    taskVars, pullErr, raised, nOps >>

\* A file disappears from the working directory.
DeleteFile(p) ==
    /\ nEnv < MaxEnv
    /\ workdir[p] # 0
    /\ nEnv' = nEnv + 1
    /\ workdir' = [workdir EXCEPT ![p] = 0]
    /\ dirty' = TRUE
    /\ hist' = "none"
    /\ check' = NoCheck
    /\ UNCHANGED << head, base, index, remote, remoteTip, branch, pc, rows0,
                    taskVars, pullErr, raised, nOps >>

\* Somebody else pushes a commit changing one path to the remote branch.
RemoteCommit(p, c) ==
    /\ nEnv < MaxEnv
    /\ nEnv' = nEnv + 1
    /\ c # remote[p]
    /\ remote' = [remote EXCEPT ![p] = c]
    /\ remoteTip' = remoteTip + 1
    /\ check' = NoCheck
    /\ UNCHANGED << head, base, index, workdir, branch, pc, rows0, taskVars,
                    pullErr, raised, dirty, hist, nOps >>

\* ---------------------------------------------------------------- pullMerge
\* lines 36-48: read the status matrix, start one resetIndex per selected path
PullMergeStart ==
    /\ pc \in Terminal
    /\ nOps < MaxOps
    /\ nOps' = nOps + 1
    /\ LET m == StatusMatrix(head, workdir, index, FALSE, NoPath)
       IN  /\ rows0' = m
           /\ pending' = ResetSet(m)
    /\ done' = {}
    /\ rejected' = FALSE
    /\ pc' = "START"
    /\ pullErr' = "none"
    /\ raised' = "none"
    /\ dirty' = FALSE
    /\ hist' = "none"
    /\ check' = NoCheck
    /\ UNCHANGED << repoVars, leftover, addPending, rmPending, nEnv >>

\* git.resetIndex({ fs, dir, filepath }) resolves: the index entry mirrors HEAD
ResetIndexResolve(p) ==
    /\ pc = "START"
    /\ p \in pending
    /\ index' = [index EXCEPT ![p] = head[p]]
    /\ pending' = pending \ {p}
    /\ done' = done \cup {p}
    /\ check' = NoCheck
    /\ UNCHANGED << head, base, workdir, remote, remoteTip, branch, pc, rows0,
                    rejected, leftover, addPending, rmPending, pullErr, raised,
                    dirty, hist, nEnv, nOps >>

\* git.resetIndex rejects (the index cannot be read or written)
ResetIndexReject(p) ==
    /\ pc = "START"
    /\ p \in pending
    /\ pending' = pending \ {p}
    /\ rejected' = TRUE
    /\ check' = NoCheck
    /\ UNCHANGED << repoVars, pc, rows0, done, leftover, addPending, rmPending,
                    pullErr, raised, dirty, hist, nEnv, nOps >>

\* line 51: await Promise.all(resetIndexPromises) resolves
AwaitResetsResolved ==
    /\ pc = "START"
    /\ ~rejected
    /\ AllResolved(pending)
    /\ pc' = "SANITIZED"
    /\ check' = NoCheck
    /\ UNCHANGED << repoVars, rows0, taskVars, pullErr, raised, dirty, hist, nEnv, nOps >>

\* line 51: await Promise.all(resetIndexPromises) rejects with the first
\* rejection; the promises still pending keep running
AwaitResetsRejected ==
    /\ pc = "START"
    /\ rejected
    /\ pc' = "FAILED"
    /\ raised' = "ResetIndexError"
    /\ leftover' = [leftover EXCEPT !.reset = @ \cup pending]
    /\ pending' = {}
    /\ check' = NoCheck
    /\ UNCHANGED << repoVars, rows0, done, rejected, addPending, rmPending,
                    pullErr, dirty, hist, nEnv, nOps >>

\* a resetIndex outliving its pullMerge completes
LeftoverReset(p) ==
    /\ p \in leftover.reset
    /\ index' = [index EXCEPT ![p] = head[p]]
    /\ leftover' = [leftover EXCEPT !.reset = @ \ {p}]
    /\ dirty' = TRUE
    /\ hist' = "none"
    /\ check' = NoCheck
    /\ UNCHANGED << head, base, workdir, remote, remoteTip, branch, pc, rows0,
                    pending, done, rejected, addPending, rmPending, pullErr,
                    raised, nEnv, nOps >>

\* line 55: gitPull(options) is called
CallGitPull ==
    /\ pc = "SANITIZED"
    /\ pc' = "FETCHING"
    /\ check' = NoCheck
    /\ UNCHANGED << repoVars, rows0, taskVars, pullErr, raised, dirty, hist, nEnv, nOps >>

\* What git.pull (fetch, merge, checkout without force) does to the
\* repository and what it raises.
GitPullOutcome(fetchOk) ==
    LET same == [ err |-> "none", head |-> head, base |-> base,
                  branch |-> branch, index |-> index, workdir |-> workdir ]
        merged ==
            IF branch.tip = remoteTip THEN same
            ELSE IF branch.ahead = 0
                 THEN [same EXCEPT !.head = remote, !.base = remote,
                                   !.branch = [tip |-> remoteTip, ahead |-> 0]]
            ELSE IF MergeConflicts(head, base, remote) # {}
                 THEN [same EXCEPT !.err = "MergeConflictError"]
            ELSE [same EXCEPT !.head = MergeTree(head, base, remote),
                              !.base = remote,
                              !.branch = [tip |-> remoteTip,
                                          ahead |-> branch.ahead + 1]]
    IN  IF ~fetchOk THEN [same EXCEPT !.err = "HttpError"]
        ELSE IF merged.err # "none" THEN merged
        ELSE IF CheckoutConflicts(merged.head, index, workdir) # {}
             THEN [merged EXCEPT !.err = "CheckoutConflictError"]
        ELSE [merged EXCEPT
                !.index = CheckoutIndex(merged.head, index, workdir),
                !.workdir = CheckoutWorkdir(merged.head, index, workdir)]

\* lines 53-64: await gitPull(options) inside try / catch
GitPull(fetchOk) ==
    /\ pc = "FETCHING"
    /\ LET out == GitPullOutcome(fetchOk)
       IN  /\ head' = out.head
           /\ base' = out.base
           /\ branch' = out.branch
           /\ index' = out.index
           /\ workdir' = out.workdir
           /\ pullErr' = out.err
           /\ pc' = IF out.err = "none" THEN "MERGED"
                    ELSE IF Swallowed(out.err) THEN "CONFLICT_SWALLOWED"
                    ELSE "FAILED"
           /\ raised' = IF out.err = "none" \/ Swallowed(out.err)
                        THEN "none" ELSE out.err
    /\ check' = NoCheck
    /\ UNCHANGED << remote, remoteTip, rows0, taskVars, dirty, hist,
                    nEnv, nOps >>

\* line 65: pullMerge returns
PullMergeReturn ==
    /\ pc \in { "MERGED", "CONFLICT_SWALLOWED" }
    /\ pc' = "DONE"
    /\ rows0' = EmptyMatrix
    /\ done' = {}
    /\ check' = NoCheck
    /\ UNCHANGED << repoVars, pending, rejected, leftover, addPending, rmPending,
                    pullErr, raised, dirty, hist, nEnv, nOps >>

\* ---------------------------------------------------------------- addAll
\* the row destructured one column short: the HEAD column decides
StagesRemovalByHead(row) == row[1] = 0

\* workTreeStatus === 0 ? git.remove(...) : git.add(...)
StagesRemoval(row) == row[2] = 0

\* lines 68-74: read the status matrix, start one git.remove or git.add per row
AddAllStart ==
    /\ pc \in Terminal
    /\ nOps < MaxOps
    /\ nOps' = nOps + 1
    /\ LET m == StatusMatrix(head, workdir, index, FALSE, NoPath)
       IN  /\ rows0' = m
           /\ rmPending' = { p \in DOMAIN m : StagesRemoval(m[p]) }
           /\ addPending' = { p \in DOMAIN m : ~StagesRemoval(m[p]) }
    /\ rejected' = FALSE
    /\ pc' = "ADDING"
    /\ pullErr' = "none"
    /\ raised' = "none"
    /\ dirty' = FALSE
    /\ hist' = "none"
    /\ check' = NoCheck
    /\ UNCHANGED << repoVars, pending, done, leftover, nEnv >>

\* git.add({ fs, dir, filepath }): stages the on-disk content, or rejects
\* with NotFoundError when the file is no longer there
GitAdd(p) ==
    /\ pc = "ADDING"
    /\ p \in addPending
    /\ addPending' = addPending \ {p}
    /\ IF workdir[p] = 0
       THEN /\ rejected' = TRUE
            /\ UNCHANGED index
       ELSE /\ index' = [index EXCEPT ![p] = workdir[p]]
            /\ UNCHANGED rejected
    /\ check' = NoCheck
    /\ UNCHANGED << head, base, workdir, remote, remoteTip, branch, pc, rows0,
                    pending, done, leftover, rmPending, pullErr, raised,
                    dirty, hist, nEnv, nOps >>

\* git.remove({ fs, dir, filepath }): drops the index entry
GitRemove(p) ==
    /\ pc = "ADDING"
    /\ p \in rmPending
    /\ rmPending' = rmPending \ {p}
    /\ index' = [index EXCEPT ![p] = 0]
    /\ check' = NoCheck
    /\ UNCHANGED << head, base, workdir, remote, remoteTip, branch, pc, rows0,
                    pending, done, rejected, leftover, addPending, pullErr,
                    raised, dirty, hist, nEnv, nOps >>

\* line 76: await Promise.all(addToIndexPromises) resolves
AwaitAddResolved ==
    /\ pc = "ADDING"
    /\ ~rejected
    /\ AllResolved(addPending \cup rmPending)
    /\ pc' = "ADD_DONE"
    /\ hist' = IF dirty THEN "none" ELSE "added"
    /\ rows0' = EmptyMatrix
    /\ check' = NoCheck
    /\ UNCHANGED << repoVars, taskVars, pullErr, raised, dirty, nEnv, nOps >>

\* line 76: await Promise.all(addToIndexPromises) rejects; the promises
\* still pending keep running
AwaitAddRejected ==
    /\ pc = "ADDING"
    /\ rejected
    /\ pc' = "ADD_FAILED"
    /\ raised' = "NotFoundError"
    /\ leftover' = [leftover EXCEPT !.add = @ \cup addPending,
                                     !.rm = @ \cup rmPending]
    /\ addPending' = {}
    /\ rmPending' = {}
    /\ check' = NoCheck
    /\ UNCHANGED << repoVars, rows0, pending, done, rejected, pullErr,
                    dirty, hist, nEnv, nOps >>

\* a git.add outliving its addAll completes (or rejects unobserved)
LeftoverAdd(p) ==
    /\ p \in leftover.add
    /\ index' = IF workdir[p] = 0 THEN index
                ELSE [index EXCEPT ![p] = workdir[p]]
    /\ leftover' = [leftover EXCEPT !.add = @ \ {p}]
    /\ dirty' = TRUE
    /\ hist' = "none"
    /\ check' = NoCheck
    /\ UNCHANGED << head, base, workdir, remote, remoteTip, branch, pc, rows0,
                    pending, done, rejected, addPending, rmPending, pullErr,
                    raised, nEnv, nOps >>

\* a git.remove outliving its addAll completes
LeftoverRemove(p) ==
    /\ p \in leftover.rm
    /\ index' = [index EXCEPT ![p] = 0]
    /\ leftover' = [leftover EXCEPT !.rm = @ \ {p}]
    /\ dirty' = TRUE
    /\ hist' = "none"
    /\ check' = NoCheck
    /\ UNCHANGED << head, base, workdir, remote, remoteTip, branch, pc, rows0,
                    pending, done, rejected, addPending, rmPending, pullErr,
                    raised, nEnv, nOps >>

\* ---------------------------------------------------------------- commit
\* git.commit({ fs, dir, message, author }): the index becomes the new HEAD tree
GitCommit ==
    /\ pc \in Terminal
    /\ nOps < MaxOps
    /\ nOps' = nOps + 1
    /\ head' = index
    /\ branch' = [branch EXCEPT !.ahead = @ + 1]
    /\ pc' = "COMMITTED"
    /\ raised' = "none"
    /\ hist' = IF pc = "ADD_DONE" /\ hist = "added" /\ ~dirty THEN "clean" ELSE "none"
    /\ check' = NoCheck
    /\ check' = NoCheck
    /\ pullErr' = "none"
    /\ UNCHANGED << base, index, workdir, remote, remoteTip, rows0, taskVars,
                    dirty, nEnv >>

\* ---------------------------------------------------------------- isWorkDirChanged
\* lines 79-98
IsWorkDirChangedResult(h, w, s, checkedPath) ==
    IF checkedPath = NoPath
    THEN SomeDeviates(StatusMatrix(h, w, s, FALSE, NoPath))
    ELSE SomeDeviates(StatusMatrix(h, w, s, TRUE,
             FormattedCheckedPath(Stat(w, checkedPath), checkedPath)))

GitIsWorkDirChanged(checkedPath) ==
    /\ pc \in Terminal
    /\ check' = [ arg |-> checkedPath,
                  res |-> IF checkedPath # NoPath /\ Stat(workdir, checkedPath) = "ENOENT"
                          THEN "ENOENT"
                          ELSE IF IsWorkDirChangedResult(head, workdir, index, checkedPath)
                               THEN "true" ELSE "false" ]
    /\ UNCHANGED << repoVars, pc, rows0, taskVars, pullErr, raised, dirty, hist,
                    nEnv, nOps >>

\* ---------------------------------------------------------------- specification
Next ==
    \/ \E p \in LivePaths, c \in 1..MaxContent : WriteFile(p, c)
    \/ \E p \in LivePaths : DeleteFile(p)
    \/ \E p \in LivePaths, c \in Contents : RemoteCommit(p, c)
    \/ PullMergeStart
    \/ \E p \in Paths : ResetIndexResolve(p)
    \/ \E p \in Paths : ResetIndexReject(p)
    \/ AwaitResetsResolved
    \/ AwaitResetsRejected
    \/ \E p \in Paths : LeftoverReset(p)
    \/ CallGitPull
    \/ \E fetchOk \in BOOLEAN : GitPull(fetchOk)
    \/ PullMergeReturn
    \/ AddAllStart
    \/ \E p \in Paths : GitAdd(p)
    \/ \E p \in Paths : GitRemove(p)
    \/ AwaitAddResolved
    \/ AwaitAddRejected
    \/ \E p \in Paths : LeftoverAdd(p)
    \/ \E p \in Paths : LeftoverRemove(p)
    \/ GitCommit
    \/ GitIsWorkDirChanged(NoPath)

Spec == Init /\ [][Next]_vars

\* The event loop runs the continuation of every settled promise, and every
\* index reset and the pull itself settle one way or the other.
PullMergeStep ==
    \/ \E p \in Paths : ResetIndexResolve(p) \/ ResetIndexReject(p)
    \/ AwaitResetsResolved
    \/ AwaitResetsRejected
    \/ CallGitPull
    \/ \E fetchOk \in BOOLEAN : GitPull(fetchOk)
    \/ PullMergeReturn

FairSpec == Spec /\ WF_vars(PullMergeStep)

\* isWorkDirChanged as a function of the repository: every combination of
\* the three snapshots, every checkedPath.
InitCheck ==
    /\ head \in Trees
    /\ index \in Trees
    /\ workdir \in Trees
    /\ base = head
    /\ remote = head
    /\ remoteTip = 0
    /\ branch = [tip |-> 0, ahead |-> 0]
    /\ pc = "idle"
    /\ rows0 = EmptyMatrix
    /\ pending = {}
    /\ done = {}
    /\ rejected = FALSE
    /\ leftover = [reset |-> {}, add |-> {}, rm |-> {}]
    /\ addPending = {}
    /\ rmPending = {}
    /\ pullErr = "none"
    /\ raised = "none"
    /\ check = NoCheck
    /\ dirty = FALSE
    /\ hist = "none"
    /\ nEnv = 0
    /\ nOps = 0

NextCheck == \E cp \in CheckedPaths : GitIsWorkDirChanged(cp)

SpecCheck == InitCheck /\ [][NextCheck]_vars

\* ---------------------------------------------------------------- claims
\* the status matrix recomputed in the current state, without a filter
Recomputed == StatusMatrix(head, workdir, index, FALSE, NoPath)

PullMergePcs == { "START", "SANITIZED", "FETCHING", "MERGED",
                  "CONFLICT_SWALLOWED", "DONE", "FAILED" }

\* C1 as stated: once sanitization has completed, the paths whose index entry
\* was reset are exactly those whose stage state was 2 or 3, or that were
\* absent from HEAD and from the working directory with stage state 1.
C1_ResetSetAsStated ==
    pc = "SANITIZED" =>
        done = { p \in DOMAIN rows0 :
                   \/ rows0[p][3] \in {2, 3}
                   \/ (rows0[p][1] = 0 /\ rows0[p][2] = 0 /\ rows0[p][3] = 1) }

\* C1 amended: once sanitization has completed, the paths whose index entry
\* was reset are exactly those whose stage state was 2 or 3, or that were
\* absent from the working directory and absent from the stage (which only
\* a path present in HEAD can be); no other path is reset, none is skipped.
C1_ResetSetExact ==
    pc = "SANITIZED" =>
        done = { p \in DOMAIN rows0 :
                   \/ rows0[p][3] \in {2, 3}
                   \/ (rows0[p][1] = 1 /\ rows0[p][2] = 0 /\ rows0[p][3] = 0) }

C1_Witness ==
    /\ pc = "SANITIZED"
    /\ \E p \in DOMAIN rows0 : rows0[p] = <<1, 0, 0>> /\ p \in done
    /\ \E p \in DOMAIN rows0 : rows0[p][3] = 1 /\ p \notin done

\* C2 as stated: every path whose stage state was 2 or 3 has been reset,
\* and the matrix recomputed after sanitization, nothing else having touched
\* the repository, shows stage state 1 (identical to HEAD) for it, whether
\* or not the path exists in HEAD.
C2_StageIdenticalAsStated ==
    (pc = "SANITIZED" /\ ~dirty) =>
        \A p \in DOMAIN rows0 :
            rows0[p][3] \in {2, 3} =>
                /\ p \in done
                /\ p \in DOMAIN Recomputed
                /\ Recomputed[p][3] = 1

\* C2 amended: every path whose stage state was 2 or 3 has been reset, and
\* the matrix recomputed after sanitization, nothing else having touched the
\* repository, shows stage state 1 for it when the path exists in HEAD, and
\* stage state 0 (or no row at all) when it does not: the index entry
\* mirrors HEAD.
C2_StageMirrorsHead ==
    (pc = "SANITIZED" /\ ~dirty) =>
        \A p \in DOMAIN rows0 :
            rows0[p][3] \in {2, 3} =>
                /\ p \in done
                /\ index[p] = head[p]
                /\ IF rows0[p][1] = 1
                   THEN p \in DOMAIN Recomputed /\ Recomputed[p][3] = 1
                   ELSE p \in DOMAIN Recomputed => Recomputed[p][3] = 0

C2_Witness ==
    /\ pc = "SANITIZED"
    /\ ~dirty
    /\ \E p \in DOMAIN rows0 : rows0[p] = <<0, 2, 2>>
    /\ \E p \in DOMAIN rows0 : rows0[p][1] = 1 /\ rows0[p][3] \in {2, 3}

\* C3: when sanitization has completed and nothing else has touched the
\* repository, a second sanitization selects no path.
C3_SanitizeIdempotent ==
    (pc = "SANITIZED" /\ ~dirty) => ResetSet(Recomputed) = {}

C3_Witness ==
    /\ pc = "SANITIZED"
    /\ ~dirty
    /\ Cardinality(done) >= 2

\* C4: a checkout conflict raised by git.pull leaves pullMerge completing
\* without raising; any other failure of git.pull is raised unchanged.
C4_SwallowsOnlyCheckoutConflict ==
    /\ pullErr = "CheckoutConflictError" =>
           pc \in {"CONFLICT_SWALLOWED", "DONE"} /\ raised = "none"
    /\ pullErr \notin {"none", "CheckoutConflictError"} =>
           pc = "FAILED" /\ raised = pullErr

C4_Witness ==
    /\ pc = "FAILED"
    /\ pullErr = "HttpError"
    /\ raised = "HttpError"

C6_BarrierBeforeFetch ==
    /\ pc \in {"SANITIZED", "FETCHING"} =>
           pending = {} /\ done = ResetSet(rows0)
    /\ pc \in {"SANITIZED", "FETCHING", "MERGED", "CONFLICT_SWALLOWED", "DONE"} =>
           ~rejected
    /\ (pc = "FAILED" /\ rejected) =>
           raised = "ResetIndexError" /\ pullErr = "none"

C6_Witness ==
    /\ pc = "FETCHING"
    /\ Cardinality(done) >= 2

\* C7: when addAll has completed and nothing else has touched the
\* repository since it read the status, the recomputed matrix shows the
\* stage mirroring the working directory for every path: absent on disk,
\* absent from the stage; present on disk, staged with the on-disk content.
C7_AddAllMirrorsWorkdir ==
    (pc = "ADD_DONE" /\ ~dirty) =>
        /\ \A p \in Paths : index[p] = workdir[p]
        /\ \A p \in DOMAIN Recomputed :
              Recomputed[p][3] = Recomputed[p][2]

C7_Witness ==
    /\ pc = "ADD_DONE"
    /\ ~dirty
    /\ \E p \in Paths : head[p] # 0 /\ workdir[p] = 0
    /\ \E p \in Paths : workdir[p] \notin {0, head[p]}

\* the filter C8 describes: no checkedPath admits every path; a directory
\* admits the paths beginning with checkedPath + "/"; a file admits itself.
AdmittedAsStated(checkedPath, p) ==
    IF checkedPath = NoPath THEN TRUE
    ELSE IF Stat(workdir, checkedPath) = "dir"
         THEN StartsWith(p, checkedPath \o <<"/">>)
    ELSE p = checkedPath

\* C8: isWorkDirChanged returns true exactly when some row inside the
\* filter deviates from (1, 1, 1), the filter of a file admitting that one
\* path only.
C8_ChangedIffDeviationInFilter ==
    check.res \in {"true", "false"} =>
        ( check.res = "true" <=>
            \E p \in DOMAIN Recomputed :
                /\ AdmittedAsStated(check.arg, p)
                /\ Recomputed[p] # <<1, 1, 1>> )

\* C9 as stated: after addAll and commit with nothing touching the
\* repository meanwhile, isWorkDirChanged(root) returns false; after one
\* file write from that state, whatever it writes, it returns true.
C9_ChangedAfterAnyWrite ==
    /\ (hist = "clean" /\ check.res # "none") => check.res = "false"
    /\ (hist \in {"one_change", "one_same"} /\ check.res # "none") =>
           check.res = "true"

\* C9 amended: after addAll and commit with nothing touching the repository
\* meanwhile, isWorkDirChanged(root) returns false; after one file write
\* from that state that creates a file or gives one a different content, it
\* returns true.
C9_ChangedAfterChangingWrite ==
    /\ (hist = "clean" /\ check.res # "none") => check.res = "false"
    /\ (hist = "one_change" /\ check.res # "none") => check.res = "true"

C9_Witness ==
    /\ hist = "one_change"
    /\ check.res = "true"
    /\ nEnv >= 2

\* the moves of pullMerge's position that C10's state machine allows
StepAsStated ==
    \/ pc' = pc
    \/ /\ pc \notin PullMergePcs \/ pc \in {"DONE", "FAILED"}
       /\ pc' \in PullMergePcs => pc' = "START"
    \/ pc = "START" /\ pc' = "SANITIZED"
    \/ pc = "SANITIZED" /\ pc' = "FETCHING"
    \/ pc = "FETCHING" /\ pc' \in {"MERGED", "CONFLICT_SWALLOWED"}
    \/ pc = "FETCHING" /\ pc' = "FAILED"
          /\ pullErr' \notin {"none", "CheckoutConflictError"}
    \/ pc \in {"MERGED", "CONFLICT_SWALLOWED"} /\ pc' = "DONE"

====
